---------------------------- MODULE Spec2Model ----------------------------
(***************************************************************************)
(* Playing-God-2: the tile pipeline of MapManager (map_manager.py) with   *)
(* its CacheManager, TileFetcher and BackgroundLoader, the view            *)
(* (ViewportManager, TileRenderer, CameraManager) and the prayers of       *)
(* PeopleManager.                                                          *)
(*                                                                         *)
(* Threads and tasks.  Every coroutine (fetch_tile, the batch gather, the  *)
(* background loader) runs on MapManager._loop, the asyncio loop of the    *)
(* constructing thread.  main.py runs that loop on the very thread that    *)
(* calls draw (loop_thread = "main"); a client that runs the loop on       *)
(* another thread is loop_thread = "worker".  A coroutine runs without     *)
(* interruption between two awaits, so one action is one such stretch.     *)
(*                                                                         *)
(* Frames.  MapManager.draw as written fails at its first statement        *)
(* (action draw) and the caller's frame loop ends.  The statements after   *)
(* it are modelled as the frame they were written to be (BeginFrame,       *)
(* process_tile, handle_async_tile_loading and the end of the wait), over  *)
(* the tile list calculate_visible_tiles returns.                          *)
(*                                                                         *)
(* The view.  ViewportManager.state, MapManager's tile zoom and the list   *)
(* calculate_visible_tiles returns are modelled in two dimensions and      *)
(* with exact arithmetic: a zoom is a multiple of 1/ZoomScale, and a       *)
(* world coordinate or a tile size is a quotient of integers.              *)
(*                                                                         *)
(* The camera and the people.  CameraManager's zoom is a multiple of       *)
(* 1/ZoomUnit and a product is rounded to the nearest one.  One person     *)
(* stands for the people of PeopleManager: its faith counts in steps of    *)
(* 1/FaithScale, and of a prayer only the type of the reply is kept.       *)
(*                                                                         *)
(* Abstractions.  Tiles are those of one row at one zoom level, so a key   *)
(* is its x coordinate.  The clock counts ticks, TicksPerSecond to the     *)
(* second; the sleeps of 0.1 s and the wait of 0.01 s are shorter than a   *)
(* tick and end at any later step.                                         *)
(***************************************************************************)
EXTENDS Integers, Sequences, FiniteSets, TLC

\* ---- bounds of the model ----
MaxPan == 1             \* the camera is moved at most this many pans from 0
MaxZoom == 3            \* the camera zooms in at most this far
ZoomScale == 2          \* zoom levels are multiples of 1/ZoomScale
NumTiles == 2           \* tiles 1..NumTiles can be visible
MaxFetches == 2         \* fetch_tile coroutines started in a run of Spec
MaxFetchesMain == 4     \* the same, in a run of SpecMain
MaxTime == 2            \* last clock tick
TicksPerSecond == 1     \* clock resolution
MaxPrayers == 2         \* prayers a person makes in a run

\* ---- program constants ----
WIDTH == 1024                     \* WindowConfig
HEIGHT == 768
PAN_SPEED == 10                   \* CameraConfig
BUFFER_TILES == 2                 \* TileRenderer
DEFAULT_TILE_SIZE == 256
max_requests_per_second == 2      \* TileFetcher.__init__ default
VisibleTileDataFields == 1        \* fields of the VisibleTileData tuple
DrawUnpackTargets == 2            \* names draw unpacks that tuple into
ZOOM_SPEED == 1                   \* CameraConfig, in 1/100
MIN_ZOOM == 50
INITIAL_ZOOM == 100
faith_default == 10               \* PersonAttributes.faith, in 1/FaithScale
faith_accepted == 2               \* the 0.1 an accepted prayer adds
faith_denied == 1                 \* the 0.05 a denied prayer takes

Keys == 0..(NumTiles + 1)         \* visible tiles and their neighbours
Slots == 1..(IF MaxFetches > MaxFetchesMain THEN MaxFetches ELSE MaxFetchesMain)
NoKey == -1
Window == 1 * TicksPerSecond      \* the 1.0 s of is_rate_limited
RenderThread == "main"            \* the thread that calls draw

Responses == {"200", "200bad", "200empty", "404", "error"}
WriteOutcomes == {"ok", "denied", "partial"}

VARIABLES
    now,              \* time.time(), in ticks
    loop_thread,      \* the thread that runs MapManager._loop
    memory_cache,     \* CacheManager.memory_cache: keys holding a surface
    disk,             \* the files of ~/.map_cache: "none", "png", "corrupt"
    request_times,    \* TileFetcher.request_times
    loading_queue,    \* BackgroundLoader.loading_queue
    loading_task,     \* background_loader tasks started (0: loading_task is None)
    bgPc,             \* background_loader: "off", "loop", "fetch", "sleep"
    tasks,            \* the fetch_tile coroutines, in order of creation
    fetches,          \* how many fetch_tile coroutines were created
    renderPc,         \* the frame: "idle", "tiles", "wait"; "raised": the frame
                      \* loop ended; "closed": Game.cleanup has returned
    visible,          \* the frame's visible tiles, in enumeration order
    idx,              \* next tile of visible to process
    tiles_to_load,    \* draw's tiles_to_load
    batch,            \* slots of the batch the frame waits on
    rendered,         \* tiles blitted in the latest frame, in order
    get_times,        \* ticks of the HTTP GETs sent in the last second
    viewport,         \* ViewportManager.state; zoom counted in 1/ZoomScale
    view_state,       \* MapManager's _tile_zoom and _zoom (in 1/ZoomScale)
    visible_tiles,    \* the list calculate_visible_tiles returned this frame
    round_trip,       \* a world point, its screen position and that one's
                      \* world position
    camera,           \* CameraManager.state; zoom counted in 1/ZoomUnit
    faith,            \* the person's attributes.faith, in 1/FaithScale
    last_prayer_time, \* attributes.last_prayer_time: "None" or "set"
    prayers,          \* attributes.prayers: of each prayer the type of
                      \* gods_reply, "none" while it is None
    active_prayers,   \* PeopleManager.active_prayers: prayer id to the index
                      \* of the prayer, 0 for an id that is no key
    next_prayer_id,   \* PeopleManager._next_prayer_id
    can_pray_result   \* how the latest can_pray call ended

viewVars == <<viewport, view_state, visible_tiles>>

gameVars == <<round_trip, camera, faith, last_prayer_time, prayers,
              active_prayers, next_prayer_id, can_pray_result>>

vars == <<now, loop_thread, memory_cache, disk, request_times, loading_queue,
          loading_task, bgPc, tasks, fetches, renderPc, visible, idx,
          tiles_to_load, batch, rendered, get_times, viewport, view_state,
          visible_tiles, round_trip, camera, faith, last_prayer_time, prayers,
          active_prayers, next_prayer_id, can_pray_result>>

NoTask == [key |-> NoKey, pc |-> "free", owner |-> "none", ret |-> "none"]

Range(s) == {s[i] : i \in 1..Len(s)}

\* ---- CacheManager ----

\* pygame.image.load: a surface, or an exception on undecodable bytes
Decodes(bytes) == bytes = "png"

get_from_memory(mem, k) == k \in mem

\* get_from_disk that loads the surface and forgets the memory cache
get_from_disk_unmirrored(mem, k) ==
    IF disk[k] # "none" /\ Decodes(disk[k])
    THEN [ret |-> "surface", mem |-> mem]
    ELSE [ret |-> "none", mem |-> mem]

\* get_from_disk that takes any existing file for a tile
get_from_disk_unchecked(mem, k) ==
    IF disk[k] # "none"
    THEN [ret |-> "surface", mem |-> mem \cup {k}]
    ELSE [ret |-> "none", mem |-> mem]

\* the surface returned (ret) and the memory cache afterwards (mem)
get_from_disk(mem, k) ==
    IF disk[k] # "none" /\ Decodes(disk[k])
    THEN [ret |-> "surface", mem |-> mem \cup {k}]
    ELSE [ret |-> "none", mem |-> mem]

\* save_to_cache over a memory cache that holds one surface only
save_to_cache_single(mem, dsk, k, data, w) ==
    IF w = "ok"
    THEN IF Decodes(data)
         THEN [ret |-> "surface", mem |-> {k},
               dsk |-> [dsk EXCEPT ![k] = data]]
         ELSE [ret |-> "none", mem |-> mem, dsk |-> [dsk EXCEPT ![k] = data]]
    ELSE [ret |-> "none", mem |-> mem,
          dsk |-> IF w = "partial" THEN [dsk EXCEPT ![k] = "corrupt"] ELSE dsk]

\* save_to_cache that writes every tile to one and the same file
save_to_cache_one_file(mem, dsk, k, data, w) ==
    IF w = "ok"
    THEN IF Decodes(data)
         THEN [ret |-> "surface", mem |-> mem \cup {k},
               dsk |-> [j \in Keys |-> data]]
         ELSE [ret |-> "none", mem |-> mem, dsk |-> [j \in Keys |-> data]]
    ELSE [ret |-> "none", mem |-> mem,
          dsk |-> IF w = "partial" THEN [j \in Keys |-> "corrupt"] ELSE dsk]

\* data: the bytes received; w: how the write to the file goes
save_to_cache(mem, dsk, k, data, w) ==
    IF w = "ok"
    THEN IF Decodes(data)
         THEN [ret |-> "surface", mem |-> mem \cup {k},
               dsk |-> [dsk EXCEPT ![k] = data]]
         ELSE [ret |-> "none", mem |-> mem, dsk |-> [dsk EXCEPT ![k] = data]]
    ELSE [ret |-> "none", mem |-> mem,
          dsk |-> IF w = "partial" THEN [dsk EXCEPT ![k] = "corrupt"] ELSE dsk]

\* ---- TileFetcher ----

\* a limiter that forgets every timestamp when it prunes
Pruned_clear(rt, t) == <<>>

\* a limiter that never forgets a timestamp
Pruned_keep_all(rt, t) == rt

Pruned(rt, t) == SelectSeq(rt, LAMBDA s : t - s < Window)

\* a limiter that lets one request more through
is_rate_limited_above(rt, t) == Len(Pruned(rt, t)) > max_requests_per_second

is_rate_limited(rt, t) == Len(Pruned(rt, t)) >= max_requests_per_second

\* the body a response carries; a failed transfer carries none
Body(resp) ==
    CASE resp = "200" -> "png"
      [] resp = "200bad" -> "corrupt"
      [] resp = "200empty" -> "empty"
      [] OTHER -> "none"

\* fetch_tile_data that records every answer it gets
fetch_tile_data_stamp_all(rt, resp, t) ==
    IF resp \in {"200", "200bad", "200empty"}
    THEN [ret |-> Body(resp), rt |-> Append(rt, t)]
    ELSE [ret |-> "none", rt |-> Append(rt, t)]

\* fetch_tile_data that returns the body of an answer whatever its status
fetch_tile_data_any_status(rt, resp, t) ==
    IF resp \in {"200", "200bad", "200empty"}
    THEN [ret |-> Body(resp), rt |-> Append(rt, t)]
    ELSE [ret |-> IF resp = "404" THEN "corrupt" ELSE "none", rt |-> rt]

\* from the response on: the data returned (ret) and request_times (rt)
fetch_tile_data(rt, resp, t) ==
    IF resp \in {"200", "200bad", "200empty"}
    THEN [ret |-> Body(resp), rt |-> Append(rt, t)]
    ELSE [ret |-> "none", rt |-> rt]

\* ---- MapManager.fetch_tile ----

\* from the rate-limit loop on: sleep again, or send the GET
fetch_tile_rate(k, mem) ==
    IF is_rate_limited(request_times, now)
    THEN [pc |-> "ratewait", ret |-> "none", mem |-> mem]
    ELSE [pc |-> "get", ret |-> "none", mem |-> mem]

\* fetch_tile that goes from the memory cache straight to the network
fetch_tile_begin_no_disk(k) ==
    IF get_from_memory(memory_cache, k)
    THEN [pc |-> "done", ret |-> "surface", mem |-> memory_cache]
    ELSE fetch_tile_rate(k, memory_cache)

\* from the call to the first await
fetch_tile_begin(k) ==
    IF get_from_memory(memory_cache, k)
    THEN [pc |-> "done", ret |-> "surface", mem |-> memory_cache]
    ELSE LET d == get_from_disk(memory_cache, k) IN
         IF d.ret = "surface"
         THEN [pc |-> "done", ret |-> "surface", mem |-> d.mem]
         ELSE fetch_tile_rate(k, d.mem)

\* the loop runs coroutines unless the thread that runs it is inside draw
LoopFree == loop_thread # RenderThread \/ renderPc = "idle"

\* a coroutine that returned: awaited by the frame, by the loader, or by nobody
Returned(t, ret) ==
    IF tasks[t].owner = "batch"
    THEN [tasks EXCEPT ![t].pc = "done", ![t].ret = ret]
    ELSE [tasks EXCEPT ![t] = NoTask]

Advance(t, r) ==
    /\ memory_cache' = r.mem
    /\ request_times' = IF r.pc = "done" THEN request_times
                        ELSE Pruned(request_times, now)
    /\ get_times' = IF r.pc = "get" THEN Append(get_times, now) ELSE get_times
    /\ tasks' = IF r.pc = "done" THEN Returned(t, r.ret)
                ELSE [tasks EXCEPT ![t].pc = r.pc]
    /\ bgPc' = IF r.pc = "done" /\ tasks[t].owner = "bg" THEN "sleep" ELSE bgPc
    /\ UNCHANGED <<now, loop_thread, disk, loading_queue, loading_task,
                   fetches, renderPc, visible, idx, tiles_to_load, batch,
                   rendered>>
    /\ UNCHANGED <<viewVars, gameVars>>

FetchStart(t) ==
    /\ LoopFree
    /\ tasks[t].pc = "start"
    /\ Advance(t, fetch_tile_begin(tasks[t].key))

FetchWake(t) ==
    /\ LoopFree
    /\ tasks[t].pc = "ratewait"
    /\ Advance(t, fetch_tile_rate(tasks[t].key, memory_cache))

\* the rest of fetch_tile: fetch_tile_data from the response on, then
\* save_to_cache when it returned data
FetchResponse(t, resp, w) ==
    /\ LoopFree
    /\ tasks[t].pc = "get"
    /\ LET k == tasks[t].key
           f == fetch_tile_data(request_times, resp, now)
           s == IF f.ret \notin {"none", "empty"}
                THEN save_to_cache(memory_cache, disk, k, f.ret, w)
                ELSE [ret |-> "none", mem |-> memory_cache, dsk |-> disk]
       IN /\ request_times' = f.rt
          /\ memory_cache' = s.mem
          /\ disk' = s.dsk
          /\ tasks' = Returned(t, s.ret)
          /\ bgPc' = IF tasks[t].owner = "bg" THEN "sleep" ELSE bgPc
    /\ UNCHANGED <<now, loop_thread, loading_queue, loading_task, fetches,
                   renderPc, visible, idx, tiles_to_load, batch, rendered,
                   get_times>>
    /\ UNCHANGED <<viewVars, gameVars>>

\* ---- BackgroundLoader ----

preload_surrounding_tiles(q, x) == q \cup {x + dx : dx \in {-1, 0, 1}}

\* ensure_background_loader that starts a task on every call
ensure_background_loader_every_call ==
    /\ loading_task' = loading_task + 1
    /\ bgPc' = IF loading_task = 0 THEN "loop" ELSE bgPc

\* the task never ends (its loop has no exit and fetch_tile raises nothing),
\* so done() is false for a task once started
ensure_background_loader ==
    IF loading_task = 0
    THEN /\ loading_task' = 1
         /\ bgPc' = "loop"
    ELSE UNCHANGED <<loading_task, bgPc>>

\* coroutines the frame in progress may still create for its batch
Reserved ==
    IF renderPc = "tiles"
    THEN Len(tiles_to_load)
         + Cardinality({i \in idx..Len(visible) : visible[i] \notin memory_cache})
    ELSE 0

\* an iteration that empties the queue and fetches one of its tiles
background_loader_drain(k, cap) ==
    /\ LoopFree
    /\ bgPc = "loop"
    /\ k \in loading_queue
    /\ fetches + Reserved < cap
    /\ LET t == fetches + 1
           r == fetch_tile_begin(k)
       IN /\ loading_queue' = {}
          /\ memory_cache' = r.mem
          /\ request_times' = IF r.pc = "done" THEN request_times
                              ELSE Pruned(request_times, now)
          /\ get_times' = IF r.pc = "get" THEN Append(get_times, now)
                          ELSE get_times
          /\ tasks' = IF r.pc = "done" THEN tasks
                      ELSE [tasks EXCEPT ![t] = [key |-> k, pc |-> r.pc,
                                                 owner |-> "bg", ret |-> "none"]]
          /\ bgPc' = IF r.pc = "done" THEN "sleep" ELSE "fetch"
    /\ fetches' = fetches + 1
    /\ UNCHANGED <<now, loop_thread, disk, loading_task, renderPc, visible,
                   idx, tiles_to_load, batch, rendered>>
    /\ UNCHANGED <<viewVars, gameVars>>

\* one iteration with a queued tile: pop it and await fetch_tile
background_loader(k, cap) ==
    /\ LoopFree
    /\ bgPc = "loop"
    /\ k \in loading_queue
    /\ fetches + Reserved < cap
    /\ LET t == fetches + 1
           r == fetch_tile_begin(k)
       IN /\ loading_queue' = loading_queue \ {k}
          /\ memory_cache' = r.mem
          /\ request_times' = IF r.pc = "done" THEN request_times
                              ELSE Pruned(request_times, now)
          /\ get_times' = IF r.pc = "get" THEN Append(get_times, now)
                          ELSE get_times
          /\ tasks' = IF r.pc = "done" THEN tasks
                      ELSE [tasks EXCEPT ![t] = [key |-> k, pc |-> r.pc,
                                                 owner |-> "bg", ret |-> "none"]]
          /\ bgPc' = IF r.pc = "done" THEN "sleep" ELSE "fetch"
    /\ fetches' = fetches + 1
    /\ UNCHANGED <<now, loop_thread, disk, loading_task, renderPc, visible,
                   idx, tiles_to_load, batch, rendered>>
    /\ UNCHANGED <<viewVars, gameVars>>

\* an iteration that finds the queue empty: nothing but the sleep
background_loader_idle ==
    /\ LoopFree
    /\ bgPc = "loop"
    /\ loading_queue = {}
    /\ bgPc' = "sleep"
    /\ UNCHANGED <<now, loop_thread, memory_cache, disk, request_times,
                   loading_queue, loading_task, tasks, fetches, renderPc,
                   visible, idx, tiles_to_load, batch, rendered, get_times>>
    /\ UNCHANGED <<viewVars, gameVars>>

\* asyncio.sleep(0.1) is over: the next iteration
background_loader_wake ==
    /\ LoopFree
    /\ bgPc = "sleep"
    /\ bgPc' = "loop"
    /\ UNCHANGED <<now, loop_thread, memory_cache, disk, request_times,
                   loading_queue, loading_task, tasks, fetches, renderPc,
                   visible, idx, tiles_to_load, batch, rendered, get_times>>
    /\ UNCHANGED <<viewVars, gameVars>>

\* ---- Game (main.py) ----

\* the exceptions Game.draw catches; game_loop catches every Exception and
\* ends the loop
GameDrawCatches == {"pygame.error"}

\* Game.cleanup after the frame loop ended (an error, or the QUIT event):
\* MapManager.cleanup is a coroutine function, the call builds a coroutine
\* that nobody awaits, so none of its statements runs
cleanup ==
    /\ renderPc \in {"idle", "raised"}
    /\ renderPc' = "closed"
    /\ UNCHANGED <<now, loop_thread, memory_cache, disk, request_times,
                   loading_queue, loading_task, bgPc, tasks, fetches, visible,
                   idx, tiles_to_load, batch, rendered, get_times>>
    /\ UNCHANGED <<viewVars, gameVars>>

\* ---- MapManager.draw ----

\* draw as written, for the rectangle lo..hi-1: the one-field tuple that
\* calculate_visible_tiles returned is unpacked into two names; the
\* ValueError leaves draw, passes Game.draw and ends game_loop
draw(lo, hi) ==
    /\ renderPc = "idle"
    /\ VisibleTileDataFields # DrawUnpackTargets
    /\ visible' = [i \in 1..(hi - lo) |-> lo + i - 1]
    /\ renderPc' = IF "ValueError" \in GameDrawCatches THEN "idle" ELSE "raised"
    /\ UNCHANGED <<now, loop_thread, memory_cache, disk, request_times,
                   loading_queue, loading_task, bgPc, tasks, fetches, idx,
                   tiles_to_load, batch, rendered, get_times>>
    /\ UNCHANGED <<viewVars, gameVars>>

\* the frame from the tile list on: tiles lo..hi-1 in enumeration order
BeginFrame(lo, hi, cap) ==
    /\ renderPc = "idle"
    /\ fetches + Cardinality((lo..(hi - 1)) \ memory_cache) <= cap
    /\ visible' = [i \in 1..(hi - lo) |-> lo + i - 1]
    /\ ensure_background_loader
    /\ tiles_to_load' = <<>>
    /\ rendered' = <<>>
    /\ idx' = 1
    /\ renderPc' = "tiles"
    /\ UNCHANGED <<now, loop_thread, memory_cache, disk, request_times,
                   loading_queue, tasks, fetches, batch, get_times>>
    /\ UNCHANGED <<viewVars, gameVars>>

\* _process_tile that leaves out a tile whose earlier fetch is still running
process_tile_skip_pending ==
    /\ renderPc = "tiles"
    /\ idx <= Len(visible)
    /\ LET x == visible[idx] IN
         /\ loading_queue' = preload_surrounding_tiles(loading_queue, x)
         /\ IF get_from_memory(memory_cache, x)
            THEN /\ rendered' = Append(rendered, x)
                 /\ UNCHANGED tiles_to_load
            ELSE IF \E t \in Slots : tasks[t].key = x /\ tasks[t].pc # "free"
            THEN UNCHANGED <<rendered, tiles_to_load>>
            ELSE /\ tiles_to_load' = Append(tiles_to_load, x)
                 /\ UNCHANGED rendered
    /\ idx' = idx + 1
    /\ UNCHANGED <<now, loop_thread, memory_cache, disk, request_times,
                   loading_task, bgPc, tasks, fetches, renderPc, visible,
                   batch, get_times>>
    /\ UNCHANGED <<viewVars, gameVars>>

\* _process_tile that draws a cached tile before those drawn so far
process_tile_newest_first ==
    /\ renderPc = "tiles"
    /\ idx <= Len(visible)
    /\ LET x == visible[idx] IN
         /\ loading_queue' = preload_surrounding_tiles(loading_queue, x)
         /\ IF get_from_memory(memory_cache, x)
            THEN /\ rendered' = <<x>> \o rendered
                 /\ UNCHANGED tiles_to_load
            ELSE /\ tiles_to_load' = Append(tiles_to_load, x)
                 /\ UNCHANGED rendered
    /\ idx' = idx + 1
    /\ UNCHANGED <<now, loop_thread, memory_cache, disk, request_times,
                   loading_task, bgPc, tasks, fetches, renderPc, visible,
                   batch, get_times>>
    /\ UNCHANGED <<viewVars, gameVars>>

process_tile ==
    /\ renderPc = "tiles"
    /\ idx <= Len(visible)
    /\ LET x == visible[idx] IN
         /\ loading_queue' = preload_surrounding_tiles(loading_queue, x)
         /\ IF get_from_memory(memory_cache, x)
            THEN /\ rendered' = Append(rendered, x)
                 /\ UNCHANGED tiles_to_load
            ELSE /\ tiles_to_load' = Append(tiles_to_load, x)
                 /\ UNCHANGED rendered
    /\ idx' = idx + 1
    /\ UNCHANGED <<now, loop_thread, memory_cache, disk, request_times,
                   loading_task, bgPc, tasks, fetches, renderPc, visible,
                   batch, get_times>>
    /\ UNCHANGED <<viewVars, gameVars>>

\* no tile missed: draw returns without a batch
draw_return ==
    /\ renderPc = "tiles"
    /\ idx > Len(visible)
    /\ tiles_to_load = <<>>
    /\ renderPc' = "idle"
    /\ visible' = <<>>
    /\ idx' = 1
    /\ UNCHANGED <<now, loop_thread, memory_cache, disk, request_times,
                   loading_queue, loading_task, bgPc, tasks, fetches,
                   tiles_to_load, batch, rendered, get_times>>
    /\ UNCHANGED <<viewVars, gameVars>>

\* run_coroutine_threadsafe(_load_tile_batch(tiles_to_load)): one fetch_tile
\* coroutine per tile, gathered
handle_async_tile_loading ==
    /\ renderPc = "tiles"
    /\ idx > Len(visible)
    /\ tiles_to_load # <<>>
    /\ LET n == Len(tiles_to_load) IN
         /\ batch' = [i \in 1..n |-> fetches + i]
         /\ tasks' = [s \in Slots |->
                       IF s \in (fetches + 1)..(fetches + n)
                       THEN [key |-> tiles_to_load[s - fetches],
                             pc |-> "start", owner |-> "batch", ret |-> "none"]
                       ELSE tasks[s]]
         /\ fetches' = fetches + n
    /\ renderPc' = "wait"
    /\ UNCHANGED <<now, loop_thread, memory_cache, disk, request_times,
                   loading_queue, loading_task, bgPc, visible, idx,
                   tiles_to_load, rendered, get_times>>
    /\ UNCHANGED <<viewVars, gameVars>>

BatchDone == \A i \in 1..Len(batch) : tasks[batch[i]].pc = "done"

\* the tiles of the batch that came back as a surface, in batch order
Loaded == SelectSeq(batch, LAMBDA s : tasks[s].pc = "done"
                                      /\ tasks[s].ret = "surface")

KeysOf(ids) == [i \in 1..Len(ids) |-> tasks[ids[i]].key]

\* future.result returned the gathered list: _render_loaded_tiles
render_loaded_tiles ==
    /\ renderPc = "wait"
    /\ BatchDone
    /\ rendered' = rendered \o KeysOf(Loaded)
    /\ tasks' = [s \in Slots |-> IF s \in Range(batch) THEN NoTask
                                 ELSE tasks[s]]
    /\ batch' = <<>>
    /\ renderPc' = "idle"
    /\ visible' = <<>>
    /\ idx' = 1
    /\ tiles_to_load' = <<>>
    /\ UNCHANGED <<now, loop_thread, memory_cache, disk, request_times,
                   loading_queue, loading_task, bgPc, fetches, get_times>>
    /\ UNCHANGED <<viewVars, gameVars>>

\* future.result() without a timeout: the wait ends only with the batch
wait_without_timeout ==
    /\ renderPc = "wait"
    /\ FALSE
    /\ UNCHANGED vars

\* a timeout that cancels the batch
wait_timeout_cancel ==
    /\ renderPc = "wait"
    /\ ~BatchDone
    /\ tasks' = [s \in Slots |-> IF s \in Range(batch) THEN NoTask
                                 ELSE tasks[s]]
    /\ batch' = <<>>
    /\ renderPc' = "idle"
    /\ visible' = <<>>
    /\ idx' = 1
    /\ tiles_to_load' = <<>>
    /\ UNCHANGED <<now, loop_thread, memory_cache, disk, request_times,
                   loading_queue, loading_task, bgPc, fetches, rendered,
                   get_times>>
    /\ UNCHANGED <<viewVars, gameVars>>

\* future.result timed out: nothing is rendered, the coroutines go on
wait_timeout ==
    /\ renderPc = "wait"
    /\ ~BatchDone
    /\ tasks' = [s \in Slots |->
                  IF s \in Range(batch)
                  THEN IF tasks[s].pc = "done" THEN NoTask
                       ELSE [tasks[s] EXCEPT !.owner = "orphan"]
                  ELSE tasks[s]]
    /\ batch' = <<>>
    /\ renderPc' = "idle"
    /\ visible' = <<>>
    /\ idx' = 1
    /\ tiles_to_load' = <<>>
    /\ UNCHANGED <<now, loop_thread, memory_cache, disk, request_times,
                   loading_queue, loading_task, bgPc, fetches, rendered,
                   get_times>>
    /\ UNCHANGED <<viewVars, gameVars>>

\* ---- the clock ----

Tick ==
    /\ now < MaxTime
    /\ now' = now + 1
    /\ get_times' = SelectSeq(get_times, LAMBDA s : now + 1 - s < Window)
    /\ UNCHANGED <<loop_thread, memory_cache, disk, request_times,
                   loading_queue, loading_task, bgPc, tasks, fetches, renderPc,
                   visible, idx, tiles_to_load, batch, rendered>>
    /\ UNCHANGED <<viewVars, gameVars>>

\* ---- ViewportManager, TileScalingManager, TileRenderer ----

\* world positions the camera is moved to
Positions == {p * PAN_SPEED : p \in -MaxPan..MaxPan}

\* zoom levels, in 1/ZoomScale
Zooms == 1..(MaxZoom * ZoomScale)

\* math.floor and math.ceil of the quotient n/d, d > 0
Floor(n, d) == n \div d

Ceil(n, d) == -((-n) \div d)

RECURSIVE Pow2(_)
Pow2(n) == IF n = 0 THEN 1 ELSE 2 * Pow2(n - 1)

\* base_tile_size * (1/2) ** (tile_zoom - 1), as the quotient num/den
get_tile_size(tz) ==
    IF tz >= 1
    THEN [num |-> DEFAULT_TILE_SIZE, den |-> Pow2(tz - 1)]
    ELSE [num |-> DEFAULT_TILE_SIZE * Pow2(1 - tz), den |-> 1]

\* ViewportState.bounds: world_x -+ (width / zoom) / 2 and the same for y,
\* each as a quotient over den
bounds(v) ==
    [left |-> 2 * v.zoom * v.world_x - v.width * ZoomScale,
     right |-> 2 * v.zoom * v.world_x + v.width * ZoomScale,
     top |-> 2 * v.zoom * v.world_y - v.height * ZoomScale,
     bottom |-> 2 * v.zoom * v.world_y + v.height * ZoomScale,
     den |-> 2 * v.zoom]

\* the tile a world coordinate c/den falls into or touches: floor and ceil of
\* c/den divided by the tile size
TileFloor(c, den, s) == Floor(c * s.den, den * s.num)

TileCeil(c, den, s) == Ceil(c * s.den, den * s.num)

\* range(start, end) over both axes, rows outside and columns inside
TileList(start_x, end_x, start_y, end_y, tz) ==
    LET cols == IF end_x > start_x THEN end_x - start_x ELSE 0
        rows == IF end_y > start_y THEN end_y - start_y ELSE 0
    IN [i \in 1..(cols * rows) |->
          <<start_x + ((i - 1) % cols), start_y + ((i - 1) \div cols), tz>>]

\* calculate_visible_tiles that puts the buffer before the rectangle only
calculate_visible_tiles_buffer_before(v, tz) ==
    LET b == bounds(v)
        s == get_tile_size(tz)
    IN TileList(TileFloor(b.left, b.den, s) - BUFFER_TILES,
                TileCeil(b.right, b.den, s),
                TileFloor(b.top, b.den, s) - BUFFER_TILES,
                TileCeil(b.bottom, b.den, s), tz)

calculate_visible_tiles(v, tz) ==
    LET b == bounds(v)
        s == get_tile_size(tz)
    IN TileList(TileFloor(b.left, b.den, s) - BUFFER_TILES,
                TileCeil(b.right, b.den, s) + BUFFER_TILES,
                TileFloor(b.top, b.den, s) - BUFFER_TILES,
                TileCeil(b.bottom, b.den, s) + BUFFER_TILES, tz)

frameVars == <<now, loop_thread, memory_cache, disk, request_times,
               loading_queue, loading_task, bgPc, tasks, fetches, renderPc,
               visible, idx, tiles_to_load, batch, rendered, get_times>>

\* ViewportManager.update with the camera's position and zoom; the list of
\* the frame before is gone
viewport_update(x, y, z) ==
    /\ viewport' = [viewport EXCEPT !.world_x = x, !.world_y = y, !.zoom = z]
    /\ visible_tiles' = <<>>
    /\ UNCHANGED <<view_state, frameVars, gameVars>>

\* MapManager.update(viewport): int(zoom), then zoom % _tile_zoom, which
\* raises ZeroDivisionError after _tile_zoom became 0
update ==
    /\ LET tz == viewport.zoom \div ZoomScale IN
         view_state' = IF tz = 0
                       THEN [view_state EXCEPT !.tile_zoom = 0]
                       ELSE [tile_zoom |-> tz,
                             zoom |-> viewport.zoom % (tz * ZoomScale)]
    /\ visible_tiles' = <<>>
    /\ UNCHANGED <<viewport, frameVars, gameVars>>

\* the call draw makes first
CalculateVisibleTiles ==
    /\ visible_tiles' = calculate_visible_tiles(viewport, view_state.tile_zoom)
    /\ UNCHANGED <<viewport, view_state, frameVars, gameVars>>

\* ViewportManager(WIDTH, HEIGHT) and MapManager's view state
InitView ==
    /\ viewport = [width |-> WIDTH, height |-> HEIGHT, world_x |-> 0,
                   world_y |-> 0, zoom |-> ZoomScale]
    /\ view_state = [tile_zoom |-> 1, zoom |-> ZoomScale]
    /\ visible_tiles = <<>>

\* ---- ViewportManager: screen and world coordinates ----

\* the quotient n/d
Q(n, d) == [num |-> n, den |-> d]

\* world_to_screen of the world point p: (p - world) * zoom + size / 2 on
\* each axis
world_to_screen(v, p) ==
    <<Q(2 * (p[1] - v.world_x) * v.zoom + v.width * ZoomScale, 2 * ZoomScale),
      Q(2 * (p[2] - v.world_y) * v.zoom + v.height * ZoomScale, 2 * ZoomScale)>>

\* screen_to_world that leaves out the camera position
screen_to_world_centred(v, q) ==
    <<Q((2 * q[1].num - v.width * q[1].den) * ZoomScale,
        2 * q[1].den * v.zoom),
      Q((2 * q[2].num - v.height * q[2].den) * ZoomScale,
        2 * q[2].den * v.zoom)>>

\* screen_to_world of the screen point q: (q - size / 2) / zoom + world on
\* each axis
screen_to_world(v, q) ==
    <<Q((2 * q[1].num - v.width * q[1].den) * ZoomScale
          + 2 * q[1].den * v.zoom * v.world_x,
        2 * q[1].den * v.zoom),
      Q((2 * q[2].num - v.height * q[2].den) * ZoomScale
          + 2 * q[2].den * v.zoom * v.world_y,
        2 * q[2].den * v.zoom)>>

\* a world point is taken to the screen and back
RoundTrip(p) ==
    /\ round_trip' = [world |-> p,
                      screen |-> world_to_screen(viewport, p),
                      back |-> screen_to_world(viewport,
                                               world_to_screen(viewport, p))]
    /\ UNCHANGED <<viewVars, frameVars, camera, faith, last_prayer_time,
                   prayers, active_prayers, next_prayer_id, can_pray_result>>

\* CoordinateManager.get_tile_url: the zoom, x and y the URL names
get_tile_url(x, y, zoom) == <<zoom, x, y>>

\* ---- CameraManager ----

\* camera zoom levels are multiples of 1/ZoomUnit
ZoomUnit == 100000

\* new_zoom = zoom * factor, factor in 1/100, rounded to the nearest level;
\* the clamp to MIN_ZOOM and MAX_ZOOM is commented out
adjust_zoom(z, factor) == (z * factor + 50) \div 100

peopleVars == <<round_trip, faith, last_prayer_time, prayers, active_prayers,
                next_prayer_id, can_pray_result>>

\* K_p or the wheel scrolled up; followed up to a zoom of MaxZoom
zoom_in ==
    /\ adjust_zoom(camera.zoom, 100 + ZOOM_SPEED) <= MaxZoom * ZoomUnit
    /\ camera' = [camera EXCEPT
                    !.zoom = adjust_zoom(camera.zoom, 100 + ZOOM_SPEED)]
    /\ UNCHANGED <<viewVars, frameVars, peopleVars>>

\* K_MINUS or the wheel scrolled down; followed until the zoom is below
\* MIN_ZOOM
zoom_out ==
    /\ camera.zoom >= MIN_ZOOM * (ZoomUnit \div 100)
    /\ camera' = [camera EXCEPT
                    !.zoom = adjust_zoom(camera.zoom, 100 - ZOOM_SPEED)]
    /\ UNCHANGED <<viewVars, frameVars, peopleVars>>

\* K_EQUALS
zoom_reset ==
    /\ camera' = [camera EXCEPT !.zoom = INITIAL_ZOOM * (ZoomUnit \div 100)]
    /\ UNCHANGED <<viewVars, frameVars, peopleVars>>

\* ---- Person, PersonAttributes, Prayer, PeopleManager (one person) ----

\* faith levels are multiples of 1/FaithScale
FaithScale == 20

PrayerIds == 1..(MaxPrayers + 1)

ResponseTypes == {"accepted", "denied", "delayed"}

\* Prayer.was_answered: bool(gods_reply), true for any Message
was_answered(reply) == reply # "none"

\* Person.get_active_prayers: the indices of the unanswered prayers
get_active_prayers(ps) == {i \in 1..Len(ps) : ~was_answered(ps[i])}

\* can_pray: low is random.random() < 0.2, elapsed whether the time since
\* the last prayer exceeds the required hours; datetime.now() - None raises
can_pray(lpt, low, elapsed) ==
    IF low /\ lpt = "None" THEN "True"
    ELSE IF lpt = "None" THEN "TypeError"
    ELSE IF elapsed THEN "True" ELSE "False"

\* the loop of PeopleManager.update over get_active_prayers, from prayer i
\* on: a prayer that is no value of active_prayers gets the next id
RECURSIVE Track(_, _, _, _)
Track(ap, nid, ps, i) ==
    IF i > Len(ps) THEN [ap |-> ap, nid |-> nid]
    ELSE IF i \in get_active_prayers(ps) /\ \A k \in DOMAIN ap : ap[k] # i
         THEN Track([ap EXCEPT ![nid] = i], nid + 1, ps, i + 1)
         ELSE Track(ap, nid, ps, i + 1)

\* PeopleManager.update: Person.update with generate_prayer, then the new
\* prayers are tracked; an exception of can_pray ends the call
people_update(low, elapsed) ==
    LET c == can_pray(last_prayer_time, low, elapsed)
        ps == IF c = "True" THEN Append(prayers, "none") ELSE prayers
        t == Track(active_prayers, next_prayer_id, ps, 1)
    IN /\ c = "True" => Len(prayers) < MaxPrayers
       /\ can_pray_result' = c
       /\ IF c = "TypeError"
          THEN UNCHANGED <<prayers, last_prayer_time, active_prayers,
                           next_prayer_id>>
          ELSE /\ prayers' = ps
               /\ last_prayer_time' = IF c = "True" THEN "set"
                                      ELSE last_prayer_time
               /\ active_prayers' = t.ap
               /\ next_prayer_id' = t.nid
       /\ UNCHANGED <<viewVars, frameVars, round_trip, camera, faith>>

\* handle_prayer_response without the limits on faith
handle_prayer_response_unlimited(f, response_type) ==
    CASE response_type = "accepted" -> f + faith_accepted
      [] response_type = "denied" -> f - faith_denied
      [] OTHER -> f

\* handle_prayer_response: the faith afterwards
handle_prayer_response(f, response_type) ==
    CASE response_type = "accepted" ->
           IF f + faith_accepted > FaithScale THEN FaithScale
           ELSE f + faith_accepted
      [] response_type = "denied" ->
           IF f - faith_denied < 0 THEN 0 ELSE f - faith_denied
      [] OTHER -> f

\* answer_prayer that removes the entry whatever the response
answer_prayer_removes_always(prayer_id, response_type) ==
    /\ IF active_prayers[prayer_id] # 0
       THEN /\ prayers' = [prayers EXCEPT
                             ![active_prayers[prayer_id]] = response_type]
            /\ faith' = handle_prayer_response(faith, response_type)
            /\ active_prayers' = [active_prayers EXCEPT ![prayer_id] = 0]
       ELSE UNCHANGED <<prayers, faith, active_prayers>>
    /\ UNCHANGED <<viewVars, frameVars, round_trip, camera, last_prayer_time,
                   next_prayer_id, can_pray_result>>

\* answer_prayer: Prayer.answer sets gods_reply, the person's faith follows,
\* and the entry is deleted unless the response is "delayed"
answer_prayer(prayer_id, response_type) ==
    /\ IF active_prayers[prayer_id] # 0
       THEN /\ prayers' = [prayers EXCEPT
                             ![active_prayers[prayer_id]] = response_type]
            /\ faith' = handle_prayer_response(faith, response_type)
            /\ active_prayers' =
                 IF response_type # "delayed"
                 THEN [active_prayers EXCEPT ![prayer_id] = 0]
                 ELSE active_prayers
       ELSE UNCHANGED <<prayers, faith, active_prayers>>
    /\ UNCHANGED <<viewVars, frameVars, round_trip, camera, last_prayer_time,
                   next_prayer_id, can_pray_result>>

\* CameraManager(), a person whose faith is one of faiths (faith_default at
\* construction, any level after earlier prayers) and PeopleManager()
InitGame(faiths) ==
    /\ round_trip = [world |-> <<0, 0>>,
                     screen |-> world_to_screen(viewport, <<0, 0>>),
                     back |-> screen_to_world(viewport,
                                world_to_screen(viewport, <<0, 0>>))]
    /\ camera = [x |-> 0, y |-> 0, zoom |-> INITIAL_ZOOM * (ZoomUnit \div 100)]
    /\ faith \in faiths
    /\ last_prayer_time = "None"
    /\ prayers = <<>>
    /\ active_prayers = [i \in PrayerIds |-> 0]
    /\ next_prayer_id = 1
    /\ can_pray_result = "none"

\* ---- the specifications ----

\* the cache directory a run starts with: empty, or a file for tile 1
InitialDisks == {[k \in Keys |-> IF k = 1 THEN f ELSE "none"] :
                   f \in {"none", "png", "corrupt"}}

InitFrame(threads, disks) ==
    /\ now = 0
    /\ loop_thread \in threads
    /\ memory_cache = {}
    /\ disk \in disks
    /\ request_times = <<>>
    /\ loading_queue = {}
    /\ loading_task = 0
    /\ bgPc = "off"
    /\ tasks = [s \in Slots |-> NoTask]
    /\ fetches = 0
    /\ renderPc = "idle"
    /\ visible = <<>>
    /\ idx = 1
    /\ tiles_to_load = <<>>
    /\ batch = <<>>
    /\ rendered = <<>>
    /\ get_times = <<>>

InitWith(threads, disks) ==
    /\ InitFrame(threads, disks)
    /\ InitView
    /\ InitGame({faith_default})

\* MapManager with any server, any disk and the loop on either thread, over
\* runs of MaxFetches fetch_tile calls (too few to fill the rate limiter, so
\* no fetch_tile sleeps in its rate-limit loop)
Init == InitWith({"main", "worker"}, InitialDisks)

Next ==
    \/ \E lo \in 1..NumTiles : \E hi \in (lo + 1)..(NumTiles + 1) : draw(lo, hi)
    \/ cleanup
    \/ background_loader_idle
    \/ background_loader_wake
    \/ \E lo \in 1..NumTiles : \E hi \in (lo + 1)..(NumTiles + 1) :
         BeginFrame(lo, hi, MaxFetches)
    \/ process_tile
    \/ draw_return
    \/ handle_async_tile_loading
    \/ render_loaded_tiles
    \/ wait_timeout
    \/ \E t \in Slots : FetchStart(t)
    \/ \E t \in Slots : \E resp \in Responses : \E w \in WriteOutcomes :
         FetchResponse(t, resp, w)
    \/ \E k \in Keys : background_loader(k, MaxFetches)
    \/ Tick

Spec == Init /\ [][Next]_vars

\* the render thread keeps running, and a timed wait ends
FairSpec == Spec /\ WF_vars(render_loaded_tiles \/ wait_timeout)

\* main.py's wiring over a longer run: the loop on the thread that draws, an
\* empty cache directory, a server that answers 200 or 404
InitMain == InitWith({"main"}, {[k \in Keys |-> "none"]})

NextMain ==
    \/ \E lo \in 1..NumTiles : \E hi \in (lo + 1)..(NumTiles + 1) :
         BeginFrame(lo, hi, MaxFetchesMain)
    \/ process_tile
    \/ draw_return
    \/ handle_async_tile_loading
    \/ wait_timeout
    \/ \E t \in Slots : FetchStart(t)
    \/ \E t \in Slots : FetchWake(t)
    \/ \E t \in Slots : \E resp \in {"200", "404"} : FetchResponse(t, resp, "ok")
    \/ \E k \in Keys : background_loader(k, MaxFetchesMain)
    \/ background_loader_idle
    \/ background_loader_wake
    \/ Tick

SpecMain == InitMain /\ [][NextMain]_vars

\* the background loader alone, after frames have filled its queue and
\* earlier fetches have left their timestamps: it pops the queue and awaits
\* one fetch_tile at a time, against any server and any disk
InitLoader ==
    /\ now = 0
    /\ loop_thread = "main"
    /\ memory_cache = {}
    /\ disk \in InitialDisks
    /\ request_times \in {[i \in 1..n |-> 0] : n \in 0..(max_requests_per_second + 1)}
    /\ loading_queue = Keys
    /\ loading_task = 1
    /\ bgPc = "loop"
    /\ tasks = [s \in Slots |-> NoTask]
    /\ fetches = 0
    /\ renderPc = "idle"
    /\ visible = <<>>
    /\ idx = 1
    /\ tiles_to_load = <<>>
    /\ batch = <<>>
    /\ rendered = <<>>
    /\ get_times = <<>>
    /\ InitView
    /\ InitGame({faith_default})

NextLoader ==
    \/ \E k \in Keys : background_loader(k, MaxFetchesMain)
    \/ background_loader_idle
    \/ background_loader_wake
    \/ \E t \in Slots : FetchWake(t)
    \/ \E t \in Slots : \E resp \in Responses : \E w \in WriteOutcomes :
         FetchResponse(t, resp, w)
    \/ Tick

SpecLoader == InitLoader /\ [][NextLoader]_vars

\* the clock advances and a sleeping fetch_tile is woken
FairSpecLoader ==
    SpecLoader /\ WF_vars(Tick) /\ WF_vars(\E t \in Slots : FetchWake(t))

\* MapManager against a server that has none of the tiles, from an empty
\* cache directory
InitNotFound == InitWith({"main", "worker"}, {[k \in Keys |-> "none"]})

NextNotFound ==
    \/ \E lo \in 1..NumTiles : \E hi \in (lo + 1)..(NumTiles + 1) : draw(lo, hi)
    \/ background_loader_idle
    \/ background_loader_wake
    \/ \E lo \in 1..NumTiles : \E hi \in (lo + 1)..(NumTiles + 1) :
         BeginFrame(lo, hi, MaxFetches)
    \/ process_tile
    \/ handle_async_tile_loading
    \/ render_loaded_tiles
    \/ wait_timeout
    \/ \E t \in Slots : FetchStart(t)
    \/ \E t \in Slots : FetchResponse(t, "404", "ok")
    \/ \E k \in Keys : background_loader(k, MaxFetches)
    \/ Tick

SpecNotFound == InitNotFound /\ [][NextNotFound]_vars

\* the view alone: the camera moves and zooms, update and the tile list
\* follow
InitTiles == InitWith({"main"}, {[k \in Keys |-> "none"]})

NextTiles ==
    \/ \E x \in Positions : \E y \in Positions : \E z \in Zooms :
         viewport_update(x, y, z)
    \/ update
    \/ CalculateVisibleTiles

SpecTiles == InitTiles /\ [][NextTiles]_vars

\* the viewport alone: world points are taken to the screen and back
NextView ==
    \/ \E x \in Positions : \E y \in Positions : \E z \in Zooms :
         viewport_update(x, y, z)
    \/ \E x \in Positions : \E y \in Positions : RoundTrip(<<x, y>>)

SpecView == InitTiles /\ [][NextView]_vars

\* the camera alone: any sequence of zoom operations
NextCamera ==
    \/ zoom_in
    \/ zoom_out
    \/ zoom_reset

SpecCamera == InitTiles /\ [][NextCamera]_vars

\* one person and the PeopleManager: updates and answers in any order
InitPeople ==
    /\ InitFrame({"main"}, {[k \in Keys |-> "none"]})
    /\ InitView
    /\ InitGame(0..FaithScale)

NextPeople ==
    \/ \E low \in BOOLEAN : \E elapsed \in BOOLEAN : people_update(low, elapsed)
    \/ \E id \in PrayerIds : \E rt \in ResponseTypes : answer_prayer(id, rt)

SpecPeople == InitPeople /\ [][NextPeople]_vars

TypeOK ==
    /\ now \in 0..MaxTime
    /\ memory_cache \subseteq Keys
    /\ loading_queue \subseteq Keys
    /\ renderPc \in {"idle", "tiles", "wait", "raised", "closed"}
    /\ bgPc \in {"off", "loop", "fetch", "sleep"}
    /\ loading_task \in 0..1

\* ---- the claims ----

\* C1: at any instant the HTTP GETs sent within the last second number at
\* most max_requests_per_second.
C1_RateCeiling == Len(get_times) <= max_requests_per_second

\* C2: a frame that waits on its pending batch stops waiting and returns,
\* also when no response ever arrives.
C2_DrawReturns == (renderPc = "wait") ~> (renderPc = "idle")

\* a frame returned while the GET of its batch is unanswered
C2_Witness ==
    /\ renderPc = "idle"
    /\ request_times = <<>>
    /\ \E t \in Slots : tasks[t].owner = "orphan" /\ tasks[t].pc = "get"

\* C3: while the render thread waits on a batch, the loop that runs the
\* batch's coroutines is on another thread, so a fetch_tile that has not
\* started can run its cache checks during the wait.
C3_FetchRunsDuringWait ==
    renderPc = "wait" =>
        /\ loop_thread # RenderThread
        /\ \A i \in 1..Len(batch) :
             tasks[batch[i]].pc = "start" => ENABLED FetchStart(batch[i])

\* C4: at most one GET is in flight for a tile key.
C4_OneInFlightPerKey ==
    \A k \in Keys :
        Cardinality({t \in Slots : tasks[t].pc = "get" /\ tasks[t].key = k}) <= 1

\* C5: no GET is sent for a key that is in the memory cache.
C5_NoRefetchOnceCached ==
    [][\A t \in Slots :
         tasks'[t].pc = "get" /\ tasks[t].pc # "get"
            => tasks'[t].key \notin memory_cache]_vars

C7_MissesAreBatchedAgain ==
    (renderPc = "wait" \/ (renderPc = "tiles" /\ idx > Len(visible))) =>
        \A i \in 1..Len(visible) :
            visible[i] \notin memory_cache => visible[i] \in Range(tiles_to_load)

\* a tile whose batch timed out, its fetch still running, is in the batch of
\* a later frame
C7_Witness ==
    /\ renderPc = "wait"
    /\ \E t \in Slots : /\ tasks[t].owner = "orphan"
                        /\ tasks[t].key \in Range(tiles_to_load)

\* C8: a timeout leaves every unfinished fetch of the batch as it is, and a
\* fetch of a timed-out batch that gets its tile (status 200, file written)
\* puts the key into the memory cache.
C8_TimedOutFetchesContinue ==
    [][/\ (renderPc = "wait" /\ renderPc' = "idle" /\ ~BatchDone) =>
            \A i \in 1..Len(batch) :
                tasks[batch[i]].pc # "done" =>
                    /\ tasks'[batch[i]].pc = tasks[batch[i]].pc
                    /\ tasks'[batch[i]].key = tasks[batch[i]].key
       /\ \A t \in Slots :
            (/\ tasks[t].owner = "orphan"
             /\ tasks[t].pc = "get"
             /\ tasks'[t] = NoTask
             /\ Len(request_times') > Len(request_times)
             /\ disk'[tasks[t].key] = "png")
                => tasks[t].key \in memory_cache']_vars

\* the first frame's batch of tiles 1 and 2 timed out; the fetch of tile 1
\* went on, was answered and cached, and a later frame rendered tile 1 from
\* the memory cache while tile 2 is still being fetched
C8_Witness ==
    /\ loop_thread = "main"
    /\ fetches = 2
    /\ tasks[1] = NoTask
    /\ tasks[2].owner = "orphan" /\ tasks[2].key = 2 /\ tasks[2].pc = "get"
    /\ request_times # <<>>
    /\ 1 \in memory_cache
    /\ rendered = <<1>>

\* C9: a fetch_tile that finds its key in the memory cache returns it and
\* touches nothing; one that misses memory and can load the file returns the
\* surface without a GET; a GET is sent in the stretch of the checks only
\* when the key is absent from memory and no surface could be loaded from disk.
C9_TierOrder ==
    [][\A k \in Keys :
        LET checked ==
              \/ \E t \in Slots : /\ tasks[t].pc = "start"
                                  /\ tasks[t].key = k
                                  /\ tasks'[t].pc # "start"
              \/ /\ k \in loading_queue
                 /\ loading_queue' = loading_queue \ {k}
            sent == Len(get_times') > Len(get_times)
            suspended == \E t \in Slots : /\ tasks'[t].key = k
                                          /\ tasks'[t].pc \in {"ratewait", "get"}
                                          /\ tasks[t].pc \notin {"ratewait", "get"}
            none == \E t \in Slots : /\ tasks[t].pc = "start"
                                     /\ tasks[t].key = k
                                     /\ tasks'[t].pc = "done"
                                     /\ tasks'[t].ret # "surface"
            loadable == disk[k] # "none" /\ Decodes(disk[k])
        IN checked =>
             /\ k \in memory_cache =>
                  /\ ~sent /\ ~suspended /\ ~none
                  /\ UNCHANGED <<memory_cache, request_times, disk>>
             /\ (k \notin memory_cache /\ loadable) =>
                  ~sent /\ ~suspended /\ ~none
             /\ (sent \/ suspended) => (k \notin memory_cache /\ ~loadable)]_vars

\* tile 1 came from its file and tile 2 is being fetched from the network
C9_Witness ==
    /\ now = 0
    /\ request_times = <<>>
    /\ disk[1] = "png" /\ 1 \in memory_cache
    /\ \E t \in Slots : tasks[t].pc = "get" /\ tasks[t].key = 2

\* C10: a fetch_tile whose key is absent from memory and whose file is on
\* disk and decodable gets the surface from get_from_disk, the memory cache
\* holds the key afterwards, and no request is made.
C10_DiskHitFillsMemory ==
    [][\A k \in Keys :
        LET checked ==
              \/ \E t \in Slots : /\ tasks[t].pc = "start"
                                  /\ tasks[t].key = k
                                  /\ tasks'[t].pc # "start"
              \/ /\ k \in loading_queue
                 /\ loading_queue' = loading_queue \ {k}
        IN (checked /\ k \notin memory_cache
                    /\ disk[k] # "none" /\ Decodes(disk[k])) =>
             /\ memory_cache' = memory_cache \cup {k}
             /\ UNCHANGED <<get_times, request_times, disk>>
             /\ \A t \in Slots :
                  (tasks[t].pc = "start" /\ tasks[t].key = k
                      /\ tasks'[t].pc = "done") => tasks'[t].ret = "surface"]_vars

\* tile 1 is in the memory cache and no response was ever received
C10_Witness ==
    /\ now = 0
    /\ request_times = <<>>
    /\ get_times = <<>>
    /\ disk[1] = "png"
    /\ memory_cache = {1}

\* C11: a poll of is_rate_limited answers true exactly when the timestamps
\* younger than one second number at least max_requests_per_second, and
\* leaves in request_times those timestamps and no older one.
C11_LimiterContract ==
    [][\A t \in Slots :
        LET polled ==
              \/ FetchWake(t)
              \/ FetchStart(t) /\ tasks'[t].pc # "done"
              \/ /\ t = fetches + 1
                 /\ bgPc' = "fetch"
                 /\ \E k \in Keys : background_loader(k, MaxFetchesMain)
            young == {i \in 1..Len(request_times) :
                        now - request_times[i] < TicksPerSecond}
        IN polled =>
             /\ \A i \in 1..Len(request_times') :
                  now - request_times'[i] < TicksPerSecond
             /\ Len(request_times') = Cardinality(young)
             /\ tasks'[t].pc \in {"ratewait", "get"}
             /\ (tasks'[t].pc = "ratewait")
                  <=> (Cardinality(young) >= max_requests_per_second)]_vars

\* after the first second, a fetch_tile sleeps on a limiter that holds
\* exactly max_requests_per_second timestamps, all of them young
C11_Witness ==
    /\ now > 0
    /\ Len(request_times) = max_requests_per_second
    /\ \A i \in 1..Len(request_times) : now - request_times[i] < TicksPerSecond
    /\ \E t \in Slots : tasks[t].pc = "ratewait"

\* C12: a fetch_tile that sleeps in its rate-limit loop leaves the loop and
\* sends its GET once the recorded timestamps have aged out, provided the
\* clock can still advance by one second.
C12_WaiterProceeds ==
    \A t \in Slots :
        (tasks[t].pc = "ratewait" /\ now + TicksPerSecond <= MaxTime)
            ~> (tasks[t].pc = "get")

\* a fetch_tile still asleep on a full limiter whose timestamps are by now
\* all one second old: its next poll lets it through
C12_Witness ==
    /\ Len(request_times) >= max_requests_per_second
    /\ \A i \in 1..Len(request_times) : now - request_times[i] >= TicksPerSecond
    /\ \E t \in Slots : tasks[t].pc = "ratewait"

\* C13: the end of fetch_tile_data: an answer with status 200 appends one
\* timestamp and hands its body to fetch_tile (which writes a non-empty one
\* to the tile file); any other status and any transport error appends
\* nothing, and fetch_tile returns None with both caches untouched.
C13_StampOnlyOn200 ==
    [][\A t \in Slots :
        (tasks[t].pc = "get" /\ tasks'[t].pc # "get") =>
            \A resp \in Responses : \A w \in WriteOutcomes :
                FetchResponse(t, resp, w) =>
                    IF resp \in {"200", "200bad", "200empty"}
                    THEN /\ request_times' = Append(request_times, now)
                         /\ (w = "ok" /\ resp # "200empty")
                               => disk'[tasks[t].key] = Body(resp)
                    ELSE /\ request_times' = request_times
                         /\ memory_cache' = memory_cache
                         /\ disk' = disk
                         /\ tasks'[t].ret # "surface"]_vars

\* three fetches went to the network within the first second and left two
\* timestamps: at least one was answered 200 and at least one was not
C13_Witness ==
    /\ now = 0
    /\ fetches = 3
    /\ \A t \in Slots : tasks[t] = NoTask
    /\ Len(request_times) = 2
    /\ memory_cache = {}
    /\ \A k \in Keys : disk[k] = "none"

\* C14: a 404 answer ends fetch_tile with None and changes neither cache,
\* the limiter nor the loading queue, so nothing records the failure; and a
\* frame that waits on its batch has a fetch_tile in it for every visible
\* tile that is not in the memory cache, a tile answered 404 before included.
C14_NotFoundStaysRetryable ==
    /\ [][\A t \in Slots : \A w \in WriteOutcomes :
            FetchResponse(t, "404", w) =>
                /\ tasks'[t].pc \in {"done", "free"}
                /\ tasks'[t].ret = "none"
                /\ UNCHANGED <<memory_cache, disk, request_times,
                               loading_queue>>]_vars
    /\ [](renderPc = "wait" =>
            \A i \in 1..Len(visible) :
                visible[i] \notin memory_cache =>
                    \E j \in 1..Len(batch) : tasks[batch[j]].key = visible[i])

\* the only fetch so far, that of tile 1 for the first frame, was answered
\* 404; the next frame found tile 1 in no cache and listed it for loading
C14_Witness ==
    /\ loop_thread = "main"
    /\ renderPc = "tiles"
    /\ idx > Len(visible)
    /\ tiles_to_load = <<1>>
    /\ fetches = 1
    /\ tasks[1] = NoTask
    /\ loading_queue = {0, 1, 2}
    /\ 1 \notin memory_cache
    /\ disk[1] = "none"

\* C15: when a save_to_cache call has returned, the key has a tile file on
\* disk exactly if it is in the memory cache.
C15_DiskMirroredInMemory ==
    [][\A t \in Slots : \A resp \in Responses : \A w \in WriteOutcomes :
        (FetchResponse(t, resp, w) /\ Body(resp) \notin {"none", "empty"}) =>
            (disk'[tasks[t].key] # "none" <=> tasks[t].key \in memory_cache')]_vars

\* C16: a save_to_cache of decodable bytes whose write to the tile file
\* fails still puts the key into the memory cache and returns the surface.
C16_WriteFailureKeepsTile ==
    [][\A t \in Slots : \A w \in {"denied", "partial"} :
        FetchResponse(t, "200", w) =>
            /\ tasks[t].key \in memory_cache'
            /\ tasks'[t].pc = "done" => tasks'[t].ret = "surface"]_vars

\* C17: a fetch_tile whose key is absent from memory and whose tile file
\* exists but does not decode leaves the file and the memory cache as they
\* are and goes on to the network path (the rate-limit loop, then the GET).
C17_CorruptFileFallsThrough ==
    [][\A k \in Keys :
        LET checked ==
              \/ \E t \in Slots : /\ tasks[t].pc = "start"
                                  /\ tasks[t].key = k
                                  /\ tasks'[t].pc # "start"
              \/ /\ k \in loading_queue
                 /\ loading_queue' = loading_queue \ {k}
        IN (checked /\ k \notin memory_cache /\ disk[k] = "corrupt") =>
             /\ UNCHANGED <<memory_cache, disk>>
             /\ \E t \in Slots : /\ tasks'[t].key = k
                                 /\ tasks'[t].pc \in {"ratewait", "get"}
                                 /\ tasks[t].pc \in {"start", "free"}]_vars

\* the GET for tile 1 is in flight while its undecodable file is on disk
C17_Witness ==
    /\ disk[1] = "corrupt"
    /\ 1 \notin memory_cache
    /\ \E t \in Slots : tasks[t].key = 1 /\ tasks[t].pc = "get"

\* C18: no step removes a key from the memory cache.
C18_MemoryOnlyGrows == [][memory_cache \subseteq memory_cache']_vars

\* tiles 1 and 2 were cached one after the other and a frame drew both
C18_Witness ==
    /\ memory_cache = {1, 2}
    /\ rendered = <<1, 2>>
    /\ renderPc = "idle"
    /\ fetches = 2

\* C19: after save_to_cache(key, bytes) a memory lookup of key finds an
\* image exactly if bytes decode, and so does a load of the key's file by a
\* process that starts with an empty memory cache.
C19_RoundTrip ==
    [][\A t \in Slots : \A resp \in Responses : \A w \in WriteOutcomes :
        (FetchResponse(t, resp, w) /\ Body(resp) \notin {"none", "empty"}) =>
            LET k == tasks[t].key IN
              /\ get_from_memory(memory_cache', k) <=> Decodes(Body(resp))
              /\ (disk'[k] # "none" /\ Decodes(disk'[k]))
                    <=> Decodes(Body(resp))]_vars

\* C20: a save_to_cache changes the file and the memory entry of no other
\* key, whatever fetches are in flight beside it, and saving the same bytes
\* under the same key once more leaves memory and disk as the first save
\* left them.
C20_SavesDoNotInterfere ==
    [][\A t \in Slots :
        (/\ <<memory_cache, disk>>' # <<memory_cache, disk>>
         /\ tasks[t].pc = "get"
         /\ tasks'[t].pc # "get") =>
            LET k == tasks[t].key IN
              /\ \A j \in Keys \ {k} :
                   /\ disk'[j] = disk[j]
                   /\ j \in memory_cache' <=> j \in memory_cache
              /\ \A data \in {"png", "corrupt"} : \A w \in WriteOutcomes :
                   LET once == save_to_cache(memory_cache, disk, k, data, w)
                       again == save_to_cache(once.mem, once.dsk, k, data, w)
                   IN (once.mem = memory_cache' /\ once.dsk = disk') =>
                        (again.mem = once.mem /\ again.dsk = once.dsk)]_vars

\* the two fetches of a run, one for tile 1 and one for tile 2, were both
\* answered within the same second and both saved
C20_Witness ==
    /\ now = 0
    /\ fetches = 2
    /\ Len(request_times) = 2
    /\ memory_cache = {1, 2}
    /\ disk[1] = "png"
    /\ disk[2] = "png"

\* C21: a timestamp in request_times that is less than a second old is still
\* there after any step of a batch fetch, of the background loader or of
\* the clock, as often as it was before: pruning drops old timestamps only
\* and an append of one fetch keeps those of the others.
C21_NoLostTimestamp ==
    [][\A s \in 0..MaxTime :
         now - s < Window =>
             Cardinality({i \in 1..Len(request_times') : request_times'[i] = s})
             >= Cardinality({i \in 1..Len(request_times) : request_times[i] = s})
      ]_vars

\* two fetches recorded their GETs in the current second; the loader's fetch
\* has pruned and sleeps in the rate-limit loop while a batch fetch is in
\* flight
C21_Witness ==
    /\ now = 1
    /\ request_times = <<1, 1>>
    /\ \E t \in Slots : tasks[t].owner = "bg" /\ tasks[t].pc = "ratewait"
    /\ \E t \in Slots : tasks[t].owner = "orphan" /\ tasks[t].pc = "get"

\* C22: an error raised while a frame is drawn does not end the frame loop:
\* the loop is never left by an error.
C22_ErrorsDoNotStopLoop == renderPc # "raised"

\* C23: once the game's cleanup has returned, the background loader task is
\* cancelled: no loader is left at any point of its loop, and no fetch it
\* awaited is left in flight.
C23_CleanupCancelsLoader ==
    renderPc = "closed" =>
        /\ bgPc = "off"
        /\ \A t \in Slots : tasks[t].owner # "bg"

\* C24: at most one background loader task has been started and is running,
\* and a call of ensure_background_loader that finds one running changes
\* neither the task nor the point its loop is at.
C24_OneLoaderTask ==
    /\ [](loading_task <= 1)
    /\ [][(loading_task >= 1 /\ renderPc = "idle" /\ renderPc' = "tiles") =>
             /\ loading_task' = loading_task
             /\ bgPc' = bgPc]_vars

\* a later frame has called ensure_background_loader: a fetch of an earlier
\* frame's batch is still in flight, and one loader task runs
C24_Witness ==
    /\ renderPc = "tiles"
    /\ loading_task = 1
    /\ bgPc # "off"
    /\ \E t \in Slots : tasks[t].owner = "orphan"

\* C25: handling a tile adds to the preload queue its neighbours and
\* nothing else: the tile itself is not queued by it.
C25_NeighboursOnly ==
    [][(renderPc = "tiles" /\ idx' = idx + 1) =>
         LET x == visible[idx] IN
           /\ {x - 1, x + 1} \subseteq loading_queue'
           /\ loading_queue' \ loading_queue \subseteq {x - 1, x + 1}]_vars

\* C26: a step that takes a key off the preload queue, or that takes the
\* loader from the head of its loop to the next point, is one iteration of
\* the loader: with a non-empty queue it removes exactly one key and what
\* happens to that key is fetch_tile up to its first await (a memory or
\* disk hit and the sleep, or a coroutine for it in the rate-limit loop or
\* at the GET); with an empty queue it changes no queue or cache state.
C26_LoaderIteration ==
    [][((bgPc = "loop" /\ bgPc' # "loop")
           \/ ~(loading_queue \subseteq loading_queue')) =>
         /\ bgPc = "loop"
         /\ IF loading_queue # {}
            THEN \E k \in loading_queue :
                   LET r == fetch_tile_begin(k) IN
                     /\ loading_queue' = loading_queue \ {k}
                     /\ memory_cache' = r.mem
                     /\ disk' = disk
                     /\ IF r.pc = "done"
                        THEN bgPc' = "sleep" /\ tasks' = tasks
                        ELSE /\ bgPc' = "fetch"
                             /\ \E t \in Slots :
                                  /\ tasks[t] = NoTask
                                  /\ tasks' = [tasks EXCEPT ![t] =
                                        [key |-> k, pc |-> r.pc,
                                         owner |-> "bg", ret |-> "none"]]
            ELSE /\ bgPc' = "sleep"
                 /\ UNCHANGED <<loading_queue, memory_cache, disk, tasks,
                                request_times>>]_vars

\* the loader took one tile off a queue of several and awaits its GET
C26_Witness ==
    /\ bgPc = "fetch"
    /\ loading_queue # {}
    /\ \E t \in Slots :
         /\ tasks[t].owner = "bg"
         /\ tasks[t].pc = "get"
         /\ tasks[t].key \notin loading_queue

\* C27: when the tile loop of a draw call is over, or the call has ended,
\* every tile of the visible rectangle has been handled exactly once: it
\* occurs once among the tiles rendered and the tiles of the pending batch.
C27_EveryVisibleTileHandled ==
    (renderPc = "raised" \/ (renderPc = "tiles" /\ idx > Len(visible))) =>
        \A i \in 1..Len(visible) :
            Cardinality({j \in 1..Len(rendered) : rendered[j] = visible[i]})
            + Cardinality({j \in 1..Len(tiles_to_load) :
                             tiles_to_load[j] = visible[i]}) = 1

\* C28: within a frame the tiles rendered inline and the tiles of the
\* pending batch each stand in the order the visible rectangle enumerates
\* them, and when the batch resolves its tiles are rendered after all
\* inline renders, in the order of the batch.
C28_RenderOrder ==
    /\ [](renderPc \in {"tiles", "wait"} =>
            \A q \in {rendered, tiles_to_load} :
                \A i, j \in 1..Len(q) :
                    i < j => \E a, b \in 1..Len(visible) :
                               /\ a < b
                               /\ visible[a] = q[i]
                               /\ visible[b] = q[j])
    /\ [][(renderPc = "wait" /\ renderPc' = "idle") =>
             /\ Len(rendered') >= Len(rendered)
             /\ SubSeq(rendered', 1, Len(rendered)) = rendered
             /\ LET added == SubSeq(rendered', Len(rendered) + 1,
                                    Len(rendered'))
                IN added = SelectSeq(tiles_to_load,
                                     LAMBDA x : x \in Range(added))]_vars

\* a frame over tiles 1 and 2 drew the cached tile 2 inline and tile 1 when
\* its batch resolved
C28_Witness ==
    /\ renderPc = "idle"
    /\ rendered = <<2, 1>>

\* C29: for a tile zoom of 1 or more and any viewport, the list returned by
\* calculate_visible_tiles is a rectangle of tiles at that zoom, without
\* repetition, that contains the unbuffered rectangle (columns from
\* floor(left/s) up to ceil(right/s), rows from floor(top/s) up to
\* ceil(bottom/s)) and has 2*BUFFER_TILES columns and 2*BUFFER_TILES rows
\* more than it.
C29_BufferedRectangle ==
    (visible_tiles # <<>> /\ view_state.tile_zoom >= 1) =>
        LET tz == view_state.tile_zoom
            b == bounds(viewport)
            s == get_tile_size(tz)
            x0 == TileFloor(b.left, b.den, s)
            x1 == TileCeil(b.right, b.den, s)
            y0 == TileFloor(b.top, b.den, s)
            y1 == TileCeil(b.bottom, b.den, s)
            tiles == Range(visible_tiles)
            cols == {t[1] : t \in tiles}
            rows == {t[2] : t \in tiles}
        IN /\ tiles = {<<x, y, tz>> : x \in cols, y \in rows}
           /\ Len(visible_tiles) = Cardinality(tiles)
           /\ {<<x, y, tz>> : x \in x0..(x1 - 1), y \in y0..(y1 - 1)}
                 \subseteq tiles
           /\ Cardinality(cols) = (x1 - x0) + 2 * BUFFER_TILES
           /\ Cardinality(rows) = (y1 - y0) + 2 * BUFFER_TILES

\* the list for a viewport off the origin at zoom 3/ZoomScale, whose edges
\* fall inside tiles of tile zoom 2
C29_Witness ==
    /\ visible_tiles # <<>>
    /\ view_state.tile_zoom = 2
    /\ viewport.zoom = 3
    /\ viewport.world_x = PAN_SPEED
    /\ viewport.world_y = -PAN_SPEED

\* C30: for the viewport centred at (0, 0) with zoom 2.0 in the WIDTH x
\* HEIGHT window, at tile zoom 2, calculate_visible_tiles returns exactly
\* the tiles with x in -4..4 and y in -3..3 at zoom 2.
C30_ScenarioA ==
    (/\ viewport = [width |-> WIDTH, height |-> HEIGHT, world_x |-> 0,
                    world_y |-> 0, zoom |-> 2 * ZoomScale]
     /\ view_state.tile_zoom = 2
     /\ visible_tiles # <<>>) =>
        Range(visible_tiles) = {<<x, y, 2>> : x \in -4..4, y \in -3..3}

\* C31: every tile whose fetch went past the caches, for a frame's batch or
\* for the preload queue, lies in the rectangle of a frame: the rectangles
\* frames have are within 1..NumTiles.
C31_OnlyVisibleTilesRequested ==
    \A t \in Slots :
        tasks[t].pc \in {"ratewait", "get"} => tasks[t].key \in 1..NumTiles

\* C32: after update(viewport) the tile zoom is floor(viewport.zoom), the
\* modulus of viewport.zoom by it exists and is the fractional zoom.
C32_UpdateSetsZooms ==
    [][update =>
         LET tz == viewport.zoom \div ZoomScale IN
           /\ view_state'.tile_zoom = tz
           /\ tz # 0
           /\ view_state'.zoom = viewport.zoom % (tz * ZoomScale)]_vars

\* C33: a world point taken to the screen and back by one viewport state is
\* the point it was.
C33_ScreenRoundTrip ==
    /\ round_trip.back[1].num = round_trip.world[1] * round_trip.back[1].den
    /\ round_trip.back[2].num = round_trip.world[2] * round_trip.back[2].den

\* a point off the camera position went through a viewport at zoom
\* 3/ZoomScale
C33_Witness ==
    /\ viewport.zoom = 3
    /\ viewport.world_x = -PAN_SPEED
    /\ round_trip.world = <<PAN_SPEED, -PAN_SPEED>>
    /\ round_trip.screen = world_to_screen(viewport, round_trip.world)
    /\ round_trip.back = screen_to_world(viewport, round_trip.screen)

\* C34: after any sequence of zoom operations the camera zoom is at least
\* MIN_ZOOM.
C34_ZoomAtLeastMinimum == camera.zoom >= MIN_ZOOM * (ZoomUnit \div 100)

\* C35: answer_prayer deletes the entry of prayer_id exactly when the id is
\* a key and the response is not "delayed"; an entry goes only by such an
\* answer, for "delayed" it stays, no other entry changes, and for an id
\* that is no key nothing changes.
C35_AnswerRemovesEntry ==
    [][/\ \A id \in PrayerIds : \A rt \in ResponseTypes :
            answer_prayer(id, rt) =>
                /\ active_prayers'[id] =
                     IF rt # "delayed" THEN 0 ELSE active_prayers[id]
                /\ \A j \in PrayerIds \ {id} :
                       active_prayers'[j] = active_prayers[j]
                /\ active_prayers[id] = 0 =>
                       UNCHANGED <<prayers, faith, active_prayers>>
       /\ \A id \in PrayerIds :
            (active_prayers[id] # 0 /\ active_prayers'[id] = 0) =>
                prayers'[active_prayers[id]] \in ResponseTypes \ {"delayed"}
      ]_vars

\* one prayer was answered "accepted" and its entry is gone, another was
\* answered "delayed" and its entry is still there
C35_Witness ==
    /\ \E i \in 1..Len(prayers) :
         /\ prayers[i] = "accepted"
         /\ \A id \in PrayerIds : active_prayers[id] # i
    /\ \E id \in PrayerIds :
         /\ active_prayers[id] # 0
         /\ prayers[active_prayers[id]] = "delayed"

\* C36: faith stays within 0..FaithScale; an answer "accepted" adds
\* faith_accepted up to FaithScale, "denied" takes faith_denied down to 0,
\* "delayed" leaves faith as it is.
C36_FaithInRange ==
    /\ [](faith \in 0..FaithScale)
    /\ [][\A id \in PrayerIds : \A rt \in ResponseTypes :
            (answer_prayer(id, rt) /\ active_prayers[id] # 0) =>
                faith' = CASE rt = "accepted" ->
                                IF faith + faith_accepted >= FaithScale
                                THEN FaithScale ELSE faith + faith_accepted
                           [] rt = "denied" ->
                                IF faith <= faith_denied THEN 0
                                ELSE faith - faith_denied
                           [] OTHER -> faith]_vars

\* an accepted prayer took the faith to its upper limit, a denied one before
\* it had lowered it
C36_Witness ==
    /\ faith = FaithScale
    /\ Len(prayers) = 2
    /\ prayers[1] = "denied"
    /\ prayers[2] = "accepted"

\* C37: the tile zoom used for tile addressing is at least 1.
C37_TileZoomAtLeastOne == view_state.tile_zoom >= 1

\* C38: the URL of every tile of the list a frame fetches names a tile of
\* the grid of its zoom level: x and y are in 0..2^zoom - 1.
C38_TileUrlsInGrid ==
    \A i \in 1..Len(visible_tiles) :
        LET u == get_tile_url(visible_tiles[i][1], visible_tiles[i][2],
                              visible_tiles[i][3])
        IN /\ u[1] >= 0
           /\ u[2] \in 0..(Pow2(u[1]) - 1)
           /\ u[3] \in 0..(Pow2(u[1]) - 1)

\* C39: every prayer that has an entry in active_prayers is unanswered.
C39_ActivePrayersUnanswered ==
    \A id \in PrayerIds :
        active_prayers[id] # 0 => ~was_answered(prayers[active_prayers[id]])

\* C40: no call of can_pray ends by an exception.
C40_CanPrayReturns == can_pray_result \in {"none", "True", "False"}

=============================================================================
